---- MODULE Spec2Model ----
(***************************************************************************)
(* Model of the authentication code of the repository:                     *)
(*   signup        (src/src/services/auth.service.js, lines 17-50)         *)
(*   hashPassword  (src/src/services/auth.service.js, lines 4-11)          *)
(*   jwttoken      (src/unnamed/part_000, utils/jwt.js)                    *)
(* Three specifications share the variables: SignupSpec, JwtSpec and       *)
(* HashSpec each run the operations of one unit and leave the rest alone.  *)
(***************************************************************************)
EXTENDS Integers, Sequences, FiniteSets

VARIABLES
    inv,        \* the invocations of signup, in order of arrival
    users,      \* the rows of the users table
    secret,     \* process.env.JWT_SECRET as read when utils/jwt.js is loaded
    clockMs,    \* Date.now()
    ticks,      \* how often the clock has advanced
    issued,     \* the tokens jwttoken.sign has returned
    signOut,    \* the outcome of the last call of jwttoken.sign
    verifyOut,  \* the outcomes of the calls of jwttoken.verify, in order
    jwtLog,     \* the log entries written by utils/jwt.js
    hashes      \* the calls of hashPassword, in order

vars == <<inv, users, secret, clockMs, ticks, issued, signOut, verifyOut, jwtLog, hashes>>

signupVars == <<inv, users>>
jwtVars == <<secret, clockMs, ticks, issued, signOut, verifyOut, jwtLog>>
hashVars == <<hashes>>

(***************************************************************************)
(* Bounds                                                                  *)
(***************************************************************************)
MaxRequests == 2
MaxTicks == 2
MaxSigned == 1
MaxHashCalls == 2
MaxVerify == 2

(***************************************************************************)
(* Errors and the logger                                                   *)
(***************************************************************************)
NoError == [type |-> "none", message |-> ""]

MkError(type, message) == [type |-> type, message |-> message]

\* The shared Winston logger: its methods are the npm log levels.
LoggerMethods == {"error", "warn", "info", "http", "verbose", "debug", "silly"}

\* logger.<method>(...): a log entry, or the TypeError of calling a property
\* that is no function.
LoggerThrows(method) == method \notin LoggerMethods

NotAFunction == MkError("TypeError", "logger.e is not a function")

(***************************************************************************)
(* signup                                                                  *)
(***************************************************************************)
Names == {"A"}
GoodEmails == {<<"a", "x.com">>, <<"b", "x.com">>}
Emails == GoodEmails \cup {<<"a", "">>}
Roles == {"user", "admin"}
RoleInputs == Roles \cup {"root"}
Secret123 == <<115, 101, 99>>

Bodies ==
    [name : Names, email : Emails, password : {Secret123}, role : RoleInputs]

\* signupSchema.safeParse(req.body): the issues found, none when it succeeds.
Issues(body) ==
    (IF body.name = "" THEN {"name"} ELSE {})
    \cup (IF body.email[1] = "" \/ body.email[2] = "" THEN {"email"} ELSE {})
    \cup (IF body.password = <<>> THEN {"password"} ELSE {})
    \cup (IF body.role \notin Roles THEN {"role"} ELSE {})

safeParse(body) ==
    [success |-> Issues(body) = {}, data |-> body, error |-> Issues(body)]

\* formatValidationError(validationResult.error): the user-facing details.
formatValidationError(error) == <<"details", error>>

DuplicateMessage == "User with this email already exists"

\* What a call on the response object may throw.
ResErrors ==
    {MkError("Error", DuplicateMessage), MkError("Error", "write failed")}

Body400(body) ==
    [error |-> "Validation failed",
     details |-> formatValidationError(safeParse(body).error)]

Body201(body) ==
    [message |-> "User registered", Id |-> 1,
     name |-> body.name, email |-> body.email, role |-> body.role]

Body409 == [error |-> "email already exists"]

Response(status, body) == [status |-> status, body |-> body]

\* if (error.message === 'User with this email already exists')
IsDuplicate_never(error) == FALSE

IsDuplicate(error) == error.message = DuplicateMessage

\* `return res.status(400).json(...)`: the handler ends there.
After400_fallthrough == "logInfo"

After400 == "done"

\* `return res.status(409).json(...)`: the handler ends there.
After409_fallthrough == "next"

After409 == "done"

NewInvocation(body) ==
    [body |-> body,
     pc |-> IF safeParse(body).success THEN "logInfo" ELSE "respond400",
     sent |-> <<>>,
     nextCalls |-> <<>>,
     caught |-> NoError,
     escaped |-> NoError,
     logged |-> <<>>,
     signed |-> <<>>,
     cookies |-> <<>>,
     hashed |-> <<>>]

Cur == Len(inv)

Running == Cur > 0 /\ inv[Cur].pc # "done"

At(pc) == Cur > 0 /\ inv[Cur].pc = pc

Set(fields) == inv' = [inv EXCEPT ![Cur] = fields]

\* An Express request arrives; signup runs safeParse (line 20) and branches
\* (line 22).  signup holds no await, so an invocation runs to its end before
\* the next one starts.
Request(body) ==
    /\ ~Running
    /\ Cur < MaxRequests
    /\ inv' = Append(inv, NewInvocation(body))
    /\ UNCHANGED <<users, jwtVars, hashVars>>

\* lines 23-26
Respond400 ==
    /\ At("respond400")
    /\ Set([inv[Cur] EXCEPT
            !.sent = Append(@, Response(400, Body400(inv[Cur].body))),
            !.pc = After400])
    /\ UNCHANGED <<users, jwtVars, hashVars>>

Respond400Throws(e) ==
    /\ At("respond400")
    /\ Set([inv[Cur] EXCEPT !.caught = e, !.pc = "catch"])
    /\ UNCHANGED <<users, jwtVars, hashVars>>

\* lines 29-33
LogInfo ==
    /\ At("logInfo")
    /\ Set([inv[Cur] EXCEPT
            !.logged = Append(@, <<"info", "User registered succussfully: ${email}">>),
            !.pc = "respond201"])
    /\ UNCHANGED <<users, jwtVars, hashVars>>

\* lines 35-38
Respond201 ==
    /\ At("respond201")
    /\ Set([inv[Cur] EXCEPT
            !.sent = Append(@, Response(201, Body201(inv[Cur].body))),
            !.pc = "done"])
    /\ UNCHANGED <<users, jwtVars, hashVars>>

Respond201Throws(e) ==
    /\ At("respond201")
    /\ Set([inv[Cur] EXCEPT !.caught = e, !.pc = "catch"])
    /\ UNCHANGED <<users, jwtVars, hashVars>>

\* lines 43-45
Catch ==
    /\ At("catch")
    /\ Set([inv[Cur] EXCEPT
            !.logged = Append(@, <<"error", "signup error">>),
            !.pc = IF IsDuplicate(inv[Cur].caught) THEN "respond409" ELSE "next"])
    /\ UNCHANGED <<users, jwtVars, hashVars>>

\* line 46
Respond409 ==
    /\ At("respond409")
    /\ Set([inv[Cur] EXCEPT
            !.sent = Append(@, Response(409, Body409)),
            !.pc = After409])
    /\ UNCHANGED <<users, jwtVars, hashVars>>

\* line 46, the call throwing inside the catch block: the error leaves signup
\* and the promise it returned rejects.
Respond409Throws(e) ==
    /\ At("respond409")
    /\ Set([inv[Cur] EXCEPT !.escaped = e, !.pc = "done"])
    /\ UNCHANGED <<users, jwtVars, hashVars>>

\* line 48
CallNext ==
    /\ At("next")
    /\ Set([inv[Cur] EXCEPT
            !.nextCalls = Append(@, inv[Cur].caught),
            !.pc = "done"])
    /\ UNCHANGED <<users, jwtVars, hashVars>>

SignupNext ==
    \/ \E body \in Bodies : Request(body)
    \/ Respond400
    \/ \E e \in ResErrors : Respond400Throws(e)
    \/ LogInfo
    \/ Respond201
    \/ \E e \in ResErrors : Respond201Throws(e)
    \/ Catch
    \/ Respond409
    \/ \E e \in ResErrors : Respond409Throws(e)
    \/ CallNext

Init ==
    /\ inv = <<>>
    /\ users = {}
    /\ secret \in {"absent", "s3cr3t"}
    /\ clockMs = 0
    /\ ticks = 0
    /\ issued = {}
    /\ signOut = [kind |-> "none"]
    /\ verifyOut = <<>>
    /\ jwtLog = <<>>
    /\ hashes = <<>>

SignupSpec == Init /\ [][SignupNext]_vars
(***************************************************************************)
(* jwttoken (utils/jwt.js)                                                 *)
(***************************************************************************)
\* JWT_EXPIRES_IN = '1d', in the seconds jsonwebtoken adds to iat.
JWT_EXPIRES_IN_2d == 2 * 24 * 60 * 60

JWT_EXPIRES_IN == 86400

OneDayMs == 24 * 60 * 60 * 1000

Jumps == {1, 999, OneDayMs}

Payloads ==
    {[id |-> 1, role |-> "user"], [id |-> 2, role |-> "admin"], [id |-> 1]}

\* Math.floor(Date.now() / 1000)
NowSec == clockMs \div 1000

\* The claims jsonwebtoken signs: the payload with iat and exp added.
Claims(payload, iat) ==
    [k \in DOMAIN payload \cup {"iat", "exp"} |->
        IF k = "iat" THEN iat
        ELSE IF k = "exp" THEN iat + JWT_EXPIRES_IN
        ELSE payload[k]]

\* The payload segment of a token and its decoding.
Serialize(claims) == {<<k, claims[k]>> : k \in DOMAIN claims}

Parse(segment) ==
    [k \in {p[1] : p \in segment} |-> (CHOOSE p \in segment : p[1] = k)[2]]

Hmac(key, header, segment) == <<key, header, segment>>

\* jwt.sign(payload, JWT_SECRET, {expiresIn: JWT_EXPIRES_IN})
JwtSign(payload, key, nowSec) ==
    IF key = "absent"
    THEN [ok |-> FALSE, error |-> MkError("Error", "secretOrPrivateKey must have a value")]
    ELSE LET segment == Serialize(Claims(payload, nowSec))
         IN  [ok |-> TRUE, token |-> <<"HS256", segment, Hmac(key, "HS256", segment)>>]

\* jwt.verify(token, JWT_SECRET)
JwtVerify(token, key, nowSec) ==
    IF Len(token) # 3
    THEN [ok |-> FALSE, error |-> MkError("JsonWebTokenError", "jwt malformed")]
    ELSE IF key = "absent"
    THEN [ok |-> FALSE,
          error |-> MkError("JsonWebTokenError", "secret or public key must be provided")]
    ELSE IF token[3] # Hmac(key, token[1], token[2])
    THEN [ok |-> FALSE, error |-> MkError("JsonWebTokenError", "invalid signature")]
    ELSE IF nowSec >= Parse(token[2]).exp
    THEN [ok |-> FALSE, error |-> MkError("TokenExpiredError", "jwt expired")]
    ELSE [ok |-> TRUE, payload |-> Parse(token[2])]

\* sign, line 16: the logger method the catch block calls.
SignLogMethod == "e"

\* sign, line 17: throw new Error('Failed to authenticat')
SignError == MkError("Error", "Failed to authenticat")

\* verify, line 25: throw new Error('Failed to verify')
VerifyError_rethrow(e) == e

VerifyError(e) == MkError("Error", "Failed to verify")

\* jwttoken.sign(payload), lines 12-19
Sign(payload) ==
    /\ Cardinality(issued) < MaxSigned
    /\ LET r == JwtSign(payload, secret, NowSec)
       IN  IF r.ok
           THEN /\ issued' = issued \cup {[token |-> r.token, payload |-> payload, at |-> clockMs]}
                /\ signOut' = [kind |-> "returned", token |-> r.token]
                /\ UNCHANGED jwtLog
           ELSE IF LoggerThrows(SignLogMethod)
           THEN /\ signOut' = [kind |-> "threw", error |-> NotAFunction, cause |-> r.error]
                /\ UNCHANGED <<issued, jwtLog>>
           ELSE /\ signOut' = [kind |-> "threw", error |-> SignError, cause |-> r.error]
                /\ jwtLog' = Append(jwtLog, <<SignLogMethod, "Errot authentication", r.error>>)
                /\ UNCHANGED issued
    /\ UNCHANGED <<secret, clockMs, ticks, verifyOut, signupVars, hashVars>>

\* The tokens a caller may present: issued ones, an issued one with its
\* payload altered, one signed with another key, and a string that is no token.
Tamper(token) ==
    <<token[1],
      {p \in token[2] : p[1] # "role"} \cup {<<"role", "admin">>},
      token[3]>>

Forged == JwtSign([id |-> 1, role |-> "admin"], "guess", NowSec).token

Presented ==
    {s.token : s \in issued} \cup {Tamper(s.token) : s \in issued}
        \cup {Forged, <<"garbage">>}

\* jwttoken.verify(token), lines 20-27
Verify(token) ==
    /\ Len(verifyOut) < MaxVerify
    /\ LET r == JwtVerify(token, secret, NowSec)
       IN  IF r.ok
           THEN /\ verifyOut' = Append(verifyOut,
                    [kind |-> "returned", token |-> token, at |-> clockMs,
                     payload |-> r.payload, error |-> NoError])
                /\ UNCHANGED jwtLog
           ELSE /\ verifyOut' = Append(verifyOut,
                    [kind |-> "threw", token |-> token, at |-> clockMs,
                     payload |-> <<>>, error |-> VerifyError(r.error)])
                /\ jwtLog' = Append(jwtLog, <<"error", "Failed to verify", r.error>>)
    /\ UNCHANGED <<secret, clockMs, ticks, issued, signOut, signupVars, hashVars>>

\* Time passes.
Tick(d) ==
    /\ ticks < MaxTicks
    /\ clockMs' = clockMs + d
    /\ ticks' = ticks + 1
    /\ UNCHANGED <<secret, issued, signOut, verifyOut, jwtLog, signupVars, hashVars>>

JwtNext ==
    \/ \E payload \in Payloads : Sign(payload)
    \/ \E token \in Presented : Verify(token)
    \/ \E d \in Jumps : Tick(d)

JwtSpec == Init /\ [][JwtNext]_vars

(***************************************************************************)
(* hashPassword                                                            *)
(***************************************************************************)
\* bcrypt.hash(password, 10): the salt rounds.
SaltRounds == 10

Salts == {<<46, 47>>, <<65, 66>>}

HashInputs == {Secret123, <<>>, <<36, 50, 98>>}

RECURSIVE Sum(_)
Sum(seq) == IF seq = <<>> THEN 0 ELSE Head(seq) + Sum(Tail(seq))

\* The digest string bcrypt returns: "$2b$", the cost in two digits, "$", the
\* salt, and the hash of password and salt at that cost.
Bcrypt(password, salt, cost) ==
    <<36, 50, 98, 36, 48 + (cost \div 10), 48 + (cost % 10), 36>>
        \o salt
        \o <<46 + ((31 * Sum(password) + 7 * Sum(salt) + cost) % 64),
             46 + ((17 * Len(password) + Sum(salt) + 3 * cost) % 64)>>

\* What bcrypt.hash may reject with.
BcryptErrors ==
    {MkError("Error", "data and salt arguments required"),
     MkError("Error", "Illegal arguments: undefined, number")}

\* line 9: `throw new error('Error hashing')`, where error is the value caught,
\* which is no constructor.
HashThrown(e) == MkError("TypeError", "error is not a constructor")

\* lines 7-10: what the call ends with once bcrypt.hash has rejected with e.
OnHashFailure_fallback(call, e) ==
    [call EXCEPT !.pc = "returned", !.value = call.password, !.failure = e]

OnHashFailure(call, e) ==
    [call EXCEPT
        !.pc = "threw",
        !.failure = e,
        !.logged = Append(@, <<"error", "Error hashing password: ${error}">>),
        !.error = HashThrown(e)]

\* line 6: what the call ends with once bcrypt.hash has resolved.
OnHashed(call, salt) ==
    [call EXCEPT !.pc = "returned", !.value = Bcrypt(call.password, salt, SaltRounds)]

\* hashPassword(password) up to its await (line 6)
HashPassword(password) ==
    /\ Len(hashes) < MaxHashCalls
    /\ hashes' = Append(hashes,
            [password |-> password, pc |-> "awaiting", value |-> <<>>,
             failure |-> NoError, error |-> NoError, logged |-> <<>>])
    /\ UNCHANGED <<signupVars, jwtVars>>

BcryptResolves(i, salt) ==
    /\ hashes[i].pc = "awaiting"
    /\ hashes' = [hashes EXCEPT ![i] = OnHashed(hashes[i], salt)]
    /\ UNCHANGED <<signupVars, jwtVars>>

BcryptRejects(i, e) ==
    /\ hashes[i].pc = "awaiting"
    /\ hashes' = [hashes EXCEPT ![i] = OnHashFailure(hashes[i], e)]
    /\ UNCHANGED <<signupVars, jwtVars>>

HashNext ==
    \/ \E password \in HashInputs : HashPassword(password)
    \/ \E i \in DOMAIN hashes, salt \in Salts : BcryptResolves(i, salt)
    \/ \E i \in DOMAIN hashes, e \in BcryptErrors : BcryptRejects(i, e)

HashSpec == Init /\ [][HashNext]_vars

(***************************************************************************)
(* Properties of signup                                                    *)
(***************************************************************************)
Invs == DOMAIN inv

Done(i) == inv[i].pc = "done"

Statuses(i) == {inv[i].sent[k].status : k \in DOMAIN inv[i].sent}

Passed(i) == safeParse(inv[i].body).success

Outcomes(i) == Len(inv[i].sent) + Len(inv[i].nextCalls)

\* C1: of the signup requests that pass validation, at most one per email
\* ends with the 201 response; a later one with the same email ends with
\* 409 {error: 'email already exists'}.
C1_OneSuccessPerEmail ==
    \A i, j \in Invs :
        (i < j /\ Passed(i) /\ Passed(j) /\ inv[i].body.email = inv[j].body.email
            /\ 201 \in Statuses(i) /\ Done(j))
        => (201 \notin Statuses(j) /\ inv[j].sent = <<Response(409, Body409)>>)

\* C2: a 201 response carries the name, email and role of the request and the
\* id of the account created for it, and no two 201 responses carry the same id.
C2_UniqueIds ==
    /\ \A i \in Invs : \A k \in DOMAIN inv[i].sent :
          inv[i].sent[k].status = 201 =>
              /\ inv[i].sent[k].body.name = inv[i].body.name
              /\ inv[i].sent[k].body.email = inv[i].body.email
              /\ inv[i].sent[k].body.role = inv[i].body.role
              /\ \E u \in users :
                    u.id = inv[i].sent[k].body.Id /\ u.email = inv[i].body.email
    /\ \A i, j \in Invs :
          (i # j /\ 201 \in Statuses(i) /\ 201 \in Statuses(j))
          => inv[i].sent[1].body.Id # inv[j].sent[1].body.Id

\* C3: when signup has sent 201 it has created the account, signed a token
\* with payload {id, role} and set it as the `token` cookie; when it has sent
\* 400 or 409 it has signed no token and set no cookie.
C3_TokenBeforeSuccess ==
    \A i \in Invs :
        /\ 201 \in Statuses(i) =>
              /\ \E u \in users : u.email = inv[i].body.email
              /\ Len(inv[i].signed) = 1
              /\ Len(inv[i].cookies) = 1
        /\ (400 \in Statuses(i) \/ 409 \in Statuses(i)) =>
              (inv[i].signed = <<>> /\ inv[i].cookies = <<>>)

\* C8: when the body fails validation signup creates no account, hashes no
\* password, signs no token, sets no cookie and sends no 201; with the
\* response object working it ends having sent exactly the 400 response with
\* 'Validation failed' and the formatted details, and having called nothing else.
C8_ValidationFailure ==
    \A i \in Invs :
        ~Passed(i) =>
            /\ 201 \notin Statuses(i)
            /\ users = {}
            /\ inv[i].hashed = <<>>
            /\ inv[i].signed = <<>>
            /\ inv[i].cookies = <<>>
            /\ (Done(i) /\ inv[i].caught = NoError) =>
                  /\ inv[i].sent =
                        <<Response(400,
                            [error |-> "Validation failed",
                             details |-> formatValidationError(Issues(inv[i].body))])>>
                  /\ inv[i].nextCalls = <<>>

C8_Witness ==
    \E i \in Invs :
        /\ ~Passed(i)
        /\ Done(i)
        /\ Statuses(i) = {400}
        /\ "role" \in inv[i].sent[1].body.details[2]

\* C9: for an error caught by signup whose handling runs to its end: the
\* duplicate-account error is answered with 409 {error: 'email already exists'}
\* and next is not called; any other error gets no response from signup and is
\* passed, the same error, to next exactly once.
C9_ErrorRouting ==
    \A i \in Invs :
        (Done(i) /\ inv[i].caught # NoError /\ inv[i].escaped = NoError) =>
            IF inv[i].caught.message = DuplicateMessage
            THEN inv[i].sent = <<Response(409, Body409)>> /\ inv[i].nextCalls = <<>>
            ELSE inv[i].sent = <<>> /\ inv[i].nextCalls = <<inv[i].caught>>

C9_Witness ==
    \E i, j \in Invs :
        /\ Done(i) /\ inv[i].caught.message = DuplicateMessage /\ Statuses(i) = {409}
        /\ Done(j) /\ inv[j].caught.message = "write failed" /\ Len(inv[j].nextCalls) = 1

Verifs == DOMAIN verifyOut

Malformed(token) == Len(token) # 3

Mismatched(token) == ~Malformed(token) /\ token[3] # Hmac(secret, token[1], token[2])

Expired(token, atMs) ==
    /\ ~Malformed(token)
    /\ ~Mismatched(token)
    /\ atMs \div 1000 >= Parse(token[2]).exp

\* C5: verify of a malformed, expired or signature-mismatched token throws,
\* returns no payload, and what it throws is in all three cases the one
\* Error('Failed to verify').
C5_OneErrorKind ==
    \A n \in Verifs :
        /\ (Malformed(verifyOut[n].token) \/ Mismatched(verifyOut[n].token)
                \/ Expired(verifyOut[n].token, verifyOut[n].at))
            => (verifyOut[n].kind = "threw" /\ verifyOut[n].payload = <<>>)
        /\ verifyOut[n].kind = "threw" =>
              verifyOut[n].error = MkError("Error", "Failed to verify")

C5_Witness ==
    /\ secret # "absent"
    /\ \E m, n \in Verifs :
        /\ Expired(verifyOut[m].token, verifyOut[m].at)
        /\ jwtLog[m][3].message = "jwt expired"
        /\ Mismatched(verifyOut[n].token)
        /\ jwtLog[n][3].message = "invalid signature"
        /\ verifyOut[m].error = verifyOut[n].error

\* C6: when sign fails it has logged the failure and what it throws is the
\* Error('Failed to authenticat') it constructs.
C6_SigningError ==
    signOut.kind = "threw" =>
        /\ signOut.error = MkError("Error", "Failed to authenticat")
        /\ jwtLog # <<>>

(***************************************************************************)
(* Properties of hashPassword                                              *)
(***************************************************************************)
\* C7: a call of hashPassword that has returned returns a digest of the
\* cost-10 hash of its password, which is not the password, and bcrypt had not
\* failed; a call in which bcrypt failed has logged exactly once and has thrown
\* an error.
C7_HashOrFail ==
    \A i \in DOMAIN hashes :
        /\ hashes[i].pc = "returned" =>
              /\ hashes[i].failure = NoError
              /\ \E salt \in Salts : hashes[i].value = Bcrypt(hashes[i].password, salt, 10)
              /\ hashes[i].value # hashes[i].password
        /\ hashes[i].failure # NoError =>
              /\ hashes[i].pc = "threw"
              /\ Len(hashes[i].logged) = 1
              /\ hashes[i].error # NoError
              /\ hashes[i].value = <<>>

C7_Witness ==
    \E i, j \in DOMAIN hashes :
        /\ hashes[i].pc = "returned" /\ hashes[i].password = Secret123
        /\ hashes[j].pc = "threw" /\ hashes[j].failure # NoError
====
